---- MODULE Spec2Model ----
(***************************************************************************)
(* A model of scripts/inventory_audit.py, the Stage 1 inventory audit of   *)
(* the Synnergy repository.                                                *)
(*                                                                         *)
(* A Python str is a TLA+ string, that is a sequence of characters: Len,   *)
(* SubSeq and \o act on it, and splitting, stripping, matching, sorting,   *)
(* formatting and JSON encoding are computed character by character.       *)
(***************************************************************************)
EXTENDS Integers, Sequences, FiniteSets, TLC

VARIABLES
    pc,           \* where the run of the script stands
    args,         \* argparse namespace: [output, json], TRUE when the flag is given
    hashOrder,    \* the order in which this process iterates a set of str
    agentsText,   \* AGENTS.md: <<text>>, <<>> when the file does not exist
    tree,         \* the files and directories below REPO_ROOT
    documented,   \* main: documented
    actual,       \* main: actual
    deps,         \* main: deps, manifest path -> dependency list, insertion ordered
    report,       \* main: report
    stdout,       \* the texts written to standard output, in order
    outputFile,   \* the -o file: <<text>>, <<>> when it does not exist
    jsonFile,     \* the --json file: <<text>>, <<>> when it does not exist
    summary,      \* main: summary (generate_json_summary's dict)
    goLines,      \* parse_go_mod: the result of read_text().splitlines()
    goIdx,        \* parse_go_mod: number of lines the for loop has consumed
    in_require,   \* parse_go_mod: in_require
    goDeps,       \* parse_go_mod: deps
    pkgText,      \* parse_package_json: the text of the package.json
    pkgData,      \* parse_package_json: data, the result of json.loads
    pkgDeps       \* parse_package_json: deps

vars == <<pc, args, hashOrder, agentsText, tree, documented, actual, deps,
          report, stdout, outputFile, jsonFile, summary,
          goLines, goIdx, in_require, goDeps, pkgText, pkgData, pkgDeps>>

-----------------------------------------------------------------------------
(* Characters and strings                                                  *)

\* The ASCII characters of the model (tab, newline and the printable ones but
\* the grave accent) in code point order.
CodePoints ==
    <<"\t", "\n", " ", "!", "\"", "#", "$", "%", "&", "'", "(", ")", "*", "+",
      ",", "-", ".", "/",
      "0", "1", "2", "3", "4", "5", "6", "7", "8", "9",
      ":", ";", "<", "=", ">", "?", "@",
      "A", "B", "C", "D", "E", "F", "G", "H", "I", "J", "K", "L", "M",
      "N", "O", "P", "Q", "R", "S", "T", "U", "V", "W", "X", "Y", "Z",
      "[", "\\", "]", "^", "_",
      "a", "b", "c", "d", "e", "f", "g", "h", "i", "j", "k", "l", "m",
      "n", "o", "p", "q", "r", "s", "t", "u", "v", "w", "x", "y", "z",
      "{", "|", "}", "~">>

Chars == {CodePoints[i] : i \in DOMAIN CodePoints}

\* The rank of a character among the code points: str comparison orders by it.
Ord == [c \in Chars |-> CHOOSE i \in DOMAIN CodePoints : CodePoints[i] = c]

Digits == {"0", "1", "2", "3", "4", "5", "6", "7", "8", "9"}

Letters == {c \in Chars : \/ Ord[c] \in Ord["A"]..Ord["Z"]
                          \/ Ord[c] \in Ord["a"]..Ord["z"]}

\* \w of the re module
WordChars == Letters \cup Digits \cup {"_"}

\* The characters str.strip() removes
Whitespace == {" ", "\t", "\n"}

\* s[i - 1:i] of Python: the i-th character, counted from 1, "" past the end
At(s, i) == IF 1 <= i /\ i <= Len(s) THEN SubSeq(s, i, i) ELSE ""

\* s[i - 1:]
From(s, i) == IF i <= Len(s) THEN SubSeq(s, i, Len(s)) ELSE ""

\* a < b for two str
RECURSIVE StrLess(_, _)
StrLess(a, b) ==
    IF b = "" THEN FALSE
    ELSE IF a = "" THEN TRUE
    ELSE IF Head(a) = Head(b) THEN StrLess(Tail(a), Tail(b))
    ELSE Ord[Head(a)] < Ord[Head(b)]

\* s.startswith(p)
StartsWith(s, p) ==
    /\ Len(p) <= Len(s)
    /\ SubSeq(s, 1, Len(p)) = p

\* s.endswith(p)
EndsWith(s, p) ==
    /\ Len(p) <= Len(s)
    /\ SubSeq(s, Len(s) - Len(p) + 1, Len(s)) = p

\* s[i - 1:].startswith(p)
OccursAt(s, p, i) ==
    /\ i + Len(p) - 1 <= Len(s)
    /\ SubSeq(s, i, i + Len(p) - 1) = p

\* s.find(p) + 1: the first place p occurs at, 0 when there is none
RECURSIVE FindFrom(_, _, _)
FindFrom(s, p, i) ==
    IF i + Len(p) - 1 > Len(s) THEN 0
    ELSE IF OccursAt(s, p, i) THEN i
    ELSE FindFrom(s, p, i + 1)

Find(s, p) == FindFrom(s, p, 1)

\* s.split(sep)
RECURSIVE Split(_, _)
Split(s, sep) ==
    LET k == Find(s, sep)
    IN  IF k = 0 THEN <<s>>
        ELSE <<SubSeq(s, 1, k - 1)>> \o Split(From(s, k + Len(sep)), sep)

\* s.split(sep, 1)
Split1(s, sep) ==
    LET k == Find(s, sep)
    IN  IF k = 0 THEN <<s>>
        ELSE <<SubSeq(s, 1, k - 1), From(s, k + Len(sep))>>

\* s.strip()
RECURSIVE LStrip(_)
LStrip(s) ==
    IF s # "" /\ Head(s) \in Whitespace THEN LStrip(Tail(s)) ELSE s

RECURSIVE RStrip(_)
RStrip(s) ==
    IF s # "" /\ At(s, Len(s)) \in Whitespace
    THEN RStrip(SubSeq(s, 1, Len(s) - 1)) ELSE s

Strip(s) == RStrip(LStrip(s))

\* str(n) for an int n >= 0
RECURSIVE IntToStr(_)
IntToStr(n) ==
    IF n < 10 THEN CodePoints[Ord["0"] + n]
    ELSE IntToStr(n \div 10) \o CodePoints[Ord["0"] + (n % 10)]

\* sep.join(parts)
RECURSIVE Join(_, _)
Join(sep, parts) ==
    IF parts = <<>> THEN ""
    ELSE IF Len(parts) = 1 THEN parts[1]
    ELSE parts[1] \o sep \o Join(sep, Tail(parts))

\* sorted(S) for a set of str: the ascending list of its elements
RECURSIVE InsertSorted(_, _)
InsertSorted(x, l) ==
    IF l = <<>> THEN <<x>>
    ELSE IF StrLess(x, Head(l)) THEN <<x>> \o l
    ELSE <<Head(l)>> \o InsertSorted(x, Tail(l))

RECURSIVE Sorted(_)
Sorted(S) ==
    IF S = {} THEN <<>>
    ELSE LET x == CHOOSE y \in S : TRUE
         IN  InsertSorted(x, Sorted(S \ {x}))

Range(f) == {f[i] : i \in DOMAIN f}

Reverse(l) == [i \in 1..Len(l) |-> l[Len(l) + 1 - i]]

-----------------------------------------------------------------------------
(* Module constants                                                        *)

\* The literal head of FILE_PATTERN
PatternPrefix == "synnergy-network/"

\* The character class [\w./-] of FILE_PATTERN
PathChars == WordChars \cup {".", "/", "-"}

\* REPO_ROOT, the parent of the directory of the script
REPO_ROOT == "/repo"

AGENTS_FILE == REPO_ROOT \o "/AGENTS.md"

TARGET_DIRS ==
    <<REPO_ROOT \o "/synnergy-network/core",
      REPO_ROOT \o "/synnergy-network/GUI",
      REPO_ROOT \o "/synnergy-network/cmd">>

OwnerKeys == {"core", "GUI", "cmd"}

OWNER_MAP == [k \in OwnerKeys |->
                 IF k = "core" THEN "Core Team"
                 ELSE IF k = "GUI" THEN "GUI Team"
                 ELSE "CLI Team"]

\* The three references parse_documented_files skips
BareRoots == {"synnergy-network/core", "synnergy-network/GUI", "synnergy-network/cmd"}

-----------------------------------------------------------------------------
(* Path Extractor: parse_documented_files                                  *)

\* The last index of the match of FILE_PATTERN that starts at i, 0 when the
\* pattern does not match there. [\w./-]+ is greedy and needs one character.
RECURSIVE GreedyEnd(_, _)
GreedyEnd(s, j) ==
    IF j + 1 <= Len(s) /\ At(s, j + 1) \in PathChars THEN GreedyEnd(s, j + 1) ELSE j

MatchEnd(s, i) ==
    IF /\ OccursAt(s, PatternPrefix, i)
       /\ i + Len(PatternPrefix) <= Len(s)
       /\ At(s, i + Len(PatternPrefix)) \in PathChars
    THEN GreedyEnd(s, i + Len(PatternPrefix))
    ELSE 0

\* FILE_PATTERN.findall(s): leftmost matches, scanning on after each one
RECURSIVE FindAllFrom(_, _)
FindAllFrom(s, i) ==
    IF i > Len(s) THEN <<>>
    ELSE LET e == MatchEnd(s, i)
         IN  IF e = 0 THEN FindAllFrom(s, i + 1)
             ELSE <<SubSeq(s, i, e)>> \o FindAllFrom(s, e + 1)

FindAll(s) == FindAllFrom(s, 1)

\* Iterating a text file: the lines, each with its newline
RECURSIVE FileLines(_)
FileLines(s) ==
    LET k == Find(s, "\n")
    IN  IF s = "" THEN <<>>
        ELSE IF k = 0 THEN <<s>>
        ELSE <<SubSeq(s, 1, k)>> \o FileLines(From(s, k + 1))

\* Mutant of LineFiles: the bare roots are not skipped
LineFilesAll(line) == Range(FindAll(line))

\* The matches one line adds to files
LineFiles(line) == {m \in Range(FindAll(line)) : m \notin BareRoots}

\* parse_documented_files on an AGENTS.md holding s
ParseDocumentedFiles(s) ==
    UNION {LineFiles(FileLines(s)[n]) : n \in DOMAIN FileLines(s)}

-----------------------------------------------------------------------------
(* Python dicts: insertion-ordered lists of <<key, value>> pairs           *)

DictKeys(d) == {d[i][1] : i \in DOMAIN d}

DictHas(d, k) == \E i \in DOMAIN d : d[i][1] = k

\* d[k], for a key of d
DictAt(d, k) == d[CHOOSE i \in DOMAIN d : d[i][1] = k][2]

\* d.get(k, default)
DictGet(d, k, default) == IF DictHas(d, k) THEN DictAt(d, k) ELSE default

\* d[k] = v: a new key goes last, a known key keeps its place
DictSet(d, k, v) ==
    IF DictHas(d, k)
    THEN [i \in DOMAIN d |-> IF d[i][1] = k THEN <<k, v>> ELSE d[i]]
    ELSE Append(d, <<k, v>>)

\* The order in which a process iterates a set of str. It depends on the hashes
\* of the strings, which differ from process to process: one of a few orders.
IterOrder(S, h) ==
    LET l == Sorted(S)
        n == Len(l)
        rot == IF n = 0 THEN l
               ELSE [i \in 1..n |-> l[((i - 1 + (h \div 2)) % n) + 1]]
    IN  IF h % 2 = 0 THEN rot ELSE Reverse(rot)

-----------------------------------------------------------------------------
(* Diff and Count Engine                                                   *)

\* Mutant of ComputeCountsLoop: the test "in OWNER_MAP" is forgotten
RECURSIVE ComputeCountsLoopAnySegment(_, _)
ComputeCountsLoopAnySegment(order, counts) ==
    IF order = <<>> THEN counts
    ELSE LET parts == Split(Head(order), "/")
         IN  ComputeCountsLoopAnySegment(
                 Tail(order),
                 IF Len(parts) > 1
                 THEN DictSet(counts, parts[2], DictGet(counts, parts[2], 0) + 1)
                 ELSE counts)

\* compute_counts, the loop over the paths in iteration order
RECURSIVE ComputeCountsLoop(_, _)
ComputeCountsLoop(order, counts) ==
    IF order = <<>> THEN counts
    ELSE LET parts == Split(Head(order), "/")
         IN  ComputeCountsLoop(
                 Tail(order),
                 IF Len(parts) > 1 /\ parts[2] \in OwnerKeys
                 THEN DictSet(counts, parts[2], DictGet(counts, parts[2], 0) + 1)
                 ELSE counts)

compute_counts(paths, h) == ComputeCountsLoop(IterOrder(paths, h), <<>>)

\* Mutant of MissingOf: the difference is forgotten
MissingOfNoDiff(doc, act) == Sorted(doc)

\* sorted(documented - actual)
MissingOf(doc, act) == Sorted(doc \ act)

\* sorted(actual - documented)
ExtraOf(doc, act) == Sorted(act \ doc)

-----------------------------------------------------------------------------
(* Report Renderers                                                        *)

\* path.split("/")[1] raises IndexError on a path without "/"
OwnerRaises(path) == Len(Split(path, "/")) < 2

\* OWNER_MAP.get(path.split("/")[1], "Unassigned")
OwnerOf(path) ==
    LET seg == Split(path, "/")[2]
    IN  IF seg \in OwnerKeys THEN OWNER_MAP[seg] ELSE "Unassigned"

\* The lines "Documented counts - ..." and "Actual counts - ..."
CountsLine(label, counts) ==
    label \o " counts - core: " \o IntToStr(DictGet(counts, "core", 0))
          \o ", GUI: " \o IntToStr(DictGet(counts, "GUI", 0))
          \o ", CLI: " \o IntToStr(DictGet(counts, "cmd", 0))

\* Mutant of SectionLines: "(none)" is appended whether or not there are paths
SectionLinesAlwaysNone(title, paths, priority) ==
    <<"## " \o title \o " (" \o IntToStr(Len(paths)) \o ")">>
    \o (IF paths # <<>>
        THEN <<"| File | Owner | Priority |", "| --- | --- | --- |">>
             \o [i \in 1..Len(paths) |->
                    "| " \o paths[i] \o " | " \o OwnerOf(paths[i])
                         \o " | " \o priority \o " |"]
        ELSE <<>>)
    \o <<"(none)", "">>

\* The lines of one of the two file sections
SectionLines(title, paths, priority) ==
    <<"## " \o title \o " (" \o IntToStr(Len(paths)) \o ")">>
    \o (IF paths # <<>>
        THEN <<"| File | Owner | Priority |", "| --- | --- | --- |">>
             \o [i \in 1..Len(paths) |->
                    "| " \o paths[i] \o " | " \o OwnerOf(paths[i])
                         \o " | " \o priority \o " |"]
        ELSE <<"(none)">>)
    \o <<"">>

\* The lines of the "Dependencies" section
RECURSIVE DependencyLines(_)
DependencyLines(d) ==
    IF d = <<>> THEN <<>>
    ELSE <<"### " \o d[1][1]>>
         \o [i \in 1..Len(d[1][2]) |-> "- " \o d[1][2][i]]
         \o <<"">>
         \o DependencyLines(Tail(d))

\* generate_report raises when an owner lookup does
ReportRaises(doc, act) ==
    \E path \in (doc \ act) \cup (act \ doc) : OwnerRaises(path)

\* generate_report: the list lines
ReportLines(doc, act, d, h) ==
    <<"# Stage 1 Inventory Audit Report", "">>
    \o <<"Documented files: " \o IntToStr(Cardinality(doc))>>
    \o <<CountsLine("Documented", compute_counts(doc, h))>>
    \o <<"Actual files: " \o IntToStr(Cardinality(act))>>
    \o <<CountsLine("Actual", compute_counts(act, h))>>
    \o <<"">>
    \o SectionLines("Missing Files", MissingOf(doc, act), "High")
    \o SectionLines("Undocumented Files", ExtraOf(doc, act), "Review")
    \o <<"## Dependencies">>
    \o DependencyLines(d)

generate_report(doc, act, d, h) == Join("\n", ReportLines(doc, act, d, h))

\* generate_json_summary: the dict, as its items in insertion order
generate_json_summary(doc, act, d, h) ==
    << <<"documented_total", Cardinality(doc)>>,
       <<"actual_total", Cardinality(act)>>,
       <<"documented_counts", compute_counts(doc, h)>>,
       <<"actual_counts", compute_counts(act, h)>>,
       <<"missing", MissingOf(doc, act)>>,
       <<"undocumented", ExtraOf(doc, act)>>,
       <<"dependencies", d>> >>

-----------------------------------------------------------------------------
(* json.dumps(summary, indent=2)                                           *)

\* Mutant of EscapeStr: nothing is escaped
EscapeStrNothing(s) == s

\* The body of a JSON string: py_encode_basestring_ascii on the model's characters
RECURSIVE EscapeStr(_)
EscapeStr(s) ==
    IF s = "" THEN ""
    ELSE LET c == Head(s)
         IN  (IF c = "\"" THEN "\\\""
              ELSE IF c = "\\" THEN "\\\\"
              ELSE IF c = "\n" THEN "\\n"
              ELSE IF c = "\t" THEN "\\t"
              ELSE c) \o EscapeStr(Tail(s))

DumpStr(s, level) == "\"" \o EscapeStr(s) \o "\""

DumpInt(n, level) == IntToStr(n)

\* The indentation of a nesting level under indent=2
RECURSIVE Indent(_)
Indent(level) == IF level = 0 THEN "" ELSE "  " \o Indent(level - 1)

\* A container whose items are already encoded
DumpItems(open, items, close, level) ==
    IF items = <<>> THEN open \o close
    ELSE open \o "\n" \o Indent(level + 1)
              \o Join(",\n" \o Indent(level + 1), items)
              \o "\n" \o Indent(level) \o close

\* A member of a dict with a str key, its value already encoded
DumpMember(key, value, level) == DumpStr(key, level) \o ": " \o value

\* A list of str
DumpStrList(l, level) ==
    DumpItems("[", [i \in 1..Len(l) |-> DumpStr(l[i], level + 1)], "]", level)

\* A dict of int: the counts
DumpCounts(d, level) ==
    DumpItems("{",
              [i \in 1..Len(d) |->
                  DumpMember(d[i][1], DumpInt(d[i][2], level + 1), level + 1)],
              "}", level)

\* A dict of lists of str: the dependencies
DumpDeps(d, level) ==
    DumpItems("{",
              [i \in 1..Len(d) |->
                  DumpMember(d[i][1], DumpStrList(d[i][2], level + 1), level + 1)],
              "}", level)

\* The encoder dispatches on the type of the value: int, dict of int, list of
\* str, dict of list of str are the types of the summary's values.
DumpSummaryValue(item, level) ==
    DumpStr(item[1], level) \o ": " \o
    (IF item[1] \in {"documented_total", "actual_total"} THEN DumpInt(item[2], level)
     ELSE IF item[1] \in {"documented_counts", "actual_counts"}
          THEN DumpCounts(item[2], level)
     ELSE IF item[1] \in {"missing", "undocumented"} THEN DumpStrList(item[2], level)
     ELSE DumpDeps(item[2], level))

\* json.dumps(summary, indent=2)
Dumps(s) ==
    DumpItems("{", [i \in 1..Len(s) |-> DumpSummaryValue(s[i], 1)], "}", 0)

-----------------------------------------------------------------------------
(* json.loads: a parse is [ok, v, n], the value read and the index after   *)
(* it; ok is FALSE where the decoder raises JSONDecodeError.               *)

JsonFail == [ok |-> FALSE, v |-> "", n |-> 0]

JsonWhitespace == {" ", "\t", "\n"}

RECURSIVE SkipWs(_, _)
SkipWs(s, i) == IF At(s, i) \in JsonWhitespace THEN SkipWs(s, i + 1) ELSE i

\* The characters of a string from index i to its closing quote
RECURSIVE ScanString(_, _, _)
ScanString(s, i, acc) ==
    LET c == At(s, i)
        e == At(s, i + 1)
    IN  IF c = "" THEN JsonFail
        ELSE IF c = "\"" THEN [ok |-> TRUE, v |-> acc, n |-> i + 1]
        ELSE IF c \in {"\n", "\t"} THEN JsonFail
        ELSE IF c # "\\" THEN ScanString(s, i + 1, acc \o c)
        ELSE IF e \in {"\"", "\\", "/"} THEN ScanString(s, i + 2, acc \o e)
        ELSE IF e = "n" THEN ScanString(s, i + 2, acc \o "\n")
        ELSE IF e = "t" THEN ScanString(s, i + 2, acc \o "\t")
        ELSE JsonFail

\* The digits of an int from index i
RECURSIVE ScanInt(_, _, _)
ScanInt(s, i, acc) ==
    IF At(s, i) \in Digits
    THEN ScanInt(s, i + 1, 10 * acc + (Ord[At(s, i)] - Ord["0"]))
    ELSE [ok |-> TRUE, v |-> acc, n |-> i]

RECURSIVE ParseValue(_, _)
RECURSIVE ParseElements(_, _, _)
RECURSIVE ParseMembers(_, _, _)

\* The elements of an array after "[" or ","
ParseElements(s, i, acc) ==
    LET r == ParseValue(s, i)
        j == SkipWs(s, r.n)
    IN  IF ~r.ok THEN JsonFail
        ELSE IF At(s, j) = "," THEN ParseElements(s, j + 1, Append(acc, r.v))
        ELSE IF At(s, j) = "]" THEN [ok |-> TRUE, v |-> Append(acc, r.v), n |-> j + 1]
        ELSE JsonFail

\* The members of an object after "{" or ",": a key met again takes the new value
ParseMembers(s, i, acc) ==
    LET k == SkipWs(s, i)
        key == IF At(s, k) = "\"" THEN ScanString(s, k + 1, "") ELSE JsonFail
        c == SkipWs(s, key.n)
        r == IF key.ok /\ At(s, c) = ":" THEN ParseValue(s, c + 1) ELSE JsonFail
        j == SkipWs(s, r.n)
    IN  IF ~r.ok THEN JsonFail
        ELSE IF At(s, j) = "," THEN ParseMembers(s, j + 1, DictSet(acc, key.v, r.v))
        ELSE IF At(s, j) = "}"
             THEN [ok |-> TRUE, v |-> DictSet(acc, key.v, r.v), n |-> j + 1]
        ELSE JsonFail

ParseValue(s, i) ==
    LET j == SkipWs(s, i)
        c == At(s, j)
        k == SkipWs(s, j + 1)
    IN  IF c = "\"" THEN ScanString(s, j + 1, "")
        ELSE IF c = "0" THEN [ok |-> TRUE, v |-> 0, n |-> j + 1]
        ELSE IF c \in Digits THEN ScanInt(s, j, 0)
        ELSE IF c = "[" THEN
            IF At(s, k) = "]" THEN [ok |-> TRUE, v |-> <<>>, n |-> k + 1]
            ELSE ParseElements(s, j + 1, <<>>)
        ELSE IF c = "{" THEN
            IF At(s, k) = "}" THEN [ok |-> TRUE, v |-> <<>>, n |-> k + 1]
            ELSE ParseMembers(s, j + 1, <<>>)
        ELSE JsonFail

\* json.loads(s): the whole text is one value
Loads(s) ==
    LET r == ParseValue(s, 1)
    IN  IF r.ok /\ SkipWs(s, r.n) = Len(s) + 1 THEN r ELSE JsonFail

-----------------------------------------------------------------------------
(* Filesystem Lister: list_actual_files                                    *)
(* The tree is a set of entries [path, kind, text] with absolute paths.    *)

\* Path(p).name
PathName(p) == LET parts == Split(p, "/") IN parts[Len(parts)]

\* base.exists()
Exists(t, p) == \E e \in t : e.path = p

\* base.rglob("*"): every entry below base
RGlobAll(t, base) == {e \in t : StartsWith(e.path, base \o "/")}

\* path.relative_to(root).as_posix()
RelativeTo(p, root) == From(p, Len(root) + 2)

\* The files one target directory adds
BaseFiles(t, base) ==
    IF ~Exists(t, base) THEN {}
    ELSE {RelativeTo(e.path, REPO_ROOT) :
              e \in {x \in RGlobAll(t, base) :
                        /\ x.kind = "file"
                        /\ PathName(RelativeTo(x.path, REPO_ROOT)) # ".DS_Store"}}

\* Mutant of list_actual_files: every file below REPO_ROOT is listed
ListEveryFile(t) == BaseFiles(t \cup {[path |-> REPO_ROOT, kind |-> "dir", text |-> ""]}, REPO_ROOT)

list_actual_files(t) == UNION {BaseFiles(t, TARGET_DIRS[i]) : i \in DOMAIN TARGET_DIRS}

-----------------------------------------------------------------------------
(* Manifest Dependency Parser                                              *)

\* text.splitlines() on the line ends of the model
SplitLines(text) ==
    LET parts == Split(text, "\n")
    IN  IF parts[Len(parts)] = "" THEN SubSeq(parts, 1, Len(parts) - 1) ELSE parts

\* Mutant of GoModStep: the line is not stripped
GoModStepNoStrip(st, raw) ==
    LET line == raw
        rest == Split1(line, "require ")
    IN  IF StartsWith(line, "require (") THEN [st EXCEPT !.in_require = TRUE]
        ELSE IF st.in_require /\ line = ")" THEN [st EXCEPT !.in_require = FALSE]
        ELSE IF st.in_require /\ line # "" THEN [st EXCEPT !.deps = Append(@, line)]
        ELSE IF StartsWith(line, "require ") /\ ~EndsWith(line, "(")
             THEN IF Len(rest) < 2 THEN [st EXCEPT !.raised = TRUE]
                  ELSE [st EXCEPT !.deps = Append(@, rest[2])]
        ELSE st

\* parse_go_mod: one pass of the for loop, st = [in_require, deps, raised]
GoModStep(st, raw) ==
    LET line == Strip(raw)
        rest == Split1(line, "require ")
    IN  IF StartsWith(line, "require (") THEN [st EXCEPT !.in_require = TRUE]
        ELSE IF st.in_require /\ line = ")" THEN [st EXCEPT !.in_require = FALSE]
        ELSE IF st.in_require /\ line # "" THEN [st EXCEPT !.deps = Append(@, line)]
        ELSE IF StartsWith(line, "require ") /\ ~EndsWith(line, "(")
             THEN IF Len(rest) < 2 THEN [st EXCEPT !.raised = TRUE]
                  ELSE [st EXCEPT !.deps = Append(@, rest[2])]
        ELSE st

RECURSIVE GoModLoop(_, _)
GoModLoop(st, lines) ==
    IF lines = <<>> \/ st.raised THEN st
    ELSE GoModLoop(GoModStep(st, Head(lines)), Tail(lines))

\* parse_go_mod on a file holding text
parse_go_mod(text) ==
    GoModLoop([in_require |-> FALSE, deps |-> <<>>, raised |-> FALSE],
              SplitLines(text)).deps

\* The entries one section of a package.json adds: f"{name} {version}"
SectionDeps(data, section) ==
    LET items == DictGet(data, section, <<>>)
    IN  [i \in 1..Len(items) |-> items[i][1] \o " " \o items[i][2]]

\* Mutant of PackageDeps: the devDependencies come first
PackageDepsDevFirst(data) ==
    SectionDeps(data, "devDependencies") \o SectionDeps(data, "dependencies")

\* parse_package_json on the result of json.loads
PackageDeps(data) ==
    SectionDeps(data, "dependencies") \o SectionDeps(data, "devDependencies")

\* REPO_ROOT.rglob(name): the paths of the entries called name
RGlobName(t, name) ==
    Sorted({e.path : e \in {x \in RGlobAll(t, REPO_ROOT) : PathName(x.path) = name}})

TextOf(t, p) == (CHOOSE e \in t : e.path = p).text

\* json.loads raises on one of the package.json files
CollectRaises(t) ==
    \E p \in Range(RGlobName(t, "package.json")) : ~Loads(TextOf(t, p)).ok

\* collect_dependencies: go.mod files first, then package.json files
collect_dependencies(t) ==
    LET gos == RGlobName(t, "go.mod")
        pkgs == RGlobName(t, "package.json")
    IN  [i \in 1..Len(gos) |->
            <<RelativeTo(gos[i], REPO_ROOT), parse_go_mod(TextOf(t, gos[i]))>>]
        \o [i \in 1..Len(pkgs) |->
            <<RelativeTo(pkgs[i], REPO_ROOT), PackageDeps(Loads(TextOf(t, pkgs[i])).v)>>]

-----------------------------------------------------------------------------
(* The run of main                                                         *)

mainVars == <<args, hashOrder, agentsText, tree, documented, actual, deps,
              report, stdout, outputFile, jsonFile, summary>>

goVars == <<goLines, goIdx, in_require, goDeps>>

pkgVars == <<pkgText, pkgData, pkgDeps>>

\* An exception leaves main: the interpreter exits with a non-zero status
Abort == pc' = "aborted"

\* documented = parse_documented_files(); open() raises when AGENTS.md is missing
ParseDocumented ==
    /\ pc = "start"
    /\ IF agentsText = <<>>
       THEN /\ Abort
            /\ UNCHANGED documented
       ELSE /\ documented' = ParseDocumentedFiles(agentsText[1])
            /\ pc' = "parsed"
    /\ UNCHANGED <<args, hashOrder, agentsText, tree, actual, deps, report,
                   stdout, outputFile, jsonFile, summary, goVars, pkgVars>>

\* actual = list_actual_files()
ListActual ==
    /\ pc = "parsed"
    /\ actual' = list_actual_files(tree)
    /\ pc' = "listed"
    /\ UNCHANGED <<args, hashOrder, agentsText, tree, documented, deps, report,
                   stdout, outputFile, jsonFile, summary, goVars, pkgVars>>

\* deps = collect_dependencies(); a malformed package.json raises
CollectDependencies ==
    /\ pc = "listed"
    /\ IF CollectRaises(tree)
       THEN /\ Abort
            /\ UNCHANGED deps
       ELSE /\ deps' = collect_dependencies(tree)
            /\ pc' = "collected"
    /\ UNCHANGED <<args, hashOrder, agentsText, tree, documented, actual, report,
                   stdout, outputFile, jsonFile, summary, goVars, pkgVars>>

\* An I/O error (OSError) while reading AGENTS.md, walking the directories or
\* reading a manifest: nothing catches it
ReadFails ==
    /\ pc \in {"start", "parsed", "listed"}
    /\ Abort
    /\ UNCHANGED <<mainVars, goVars, pkgVars>>

\* report = generate_report(documented, actual, deps)
GenerateReport ==
    /\ pc = "collected"
    /\ IF ReportRaises(documented, actual)
       THEN /\ Abort
            /\ UNCHANGED report
       ELSE /\ report' = generate_report(documented, actual, deps, hashOrder)
            /\ pc' = "reported"
    /\ UNCHANGED <<args, hashOrder, agentsText, tree, documented, actual, deps,
                   stdout, outputFile, jsonFile, summary, goVars, pkgVars>>

\* What a write that fails may leave of text in a file that held old: the file
\* as it was (open failed), or truncated with part of the text in it
FailedWrite(old, text) == {old, <<"">>, <<SubSeq(text, 1, Len(text) \div 2)>>}

\* Mutant of WriteOutput: the report is printed as well
WriteOutputAndPrint ==
    /\ pc = "reported"
    /\ args.output
    /\ outputFile' = <<report>>
    /\ stdout' = Append(stdout, report \o "\n")
    /\ pc' = "delivered"
    /\ UNCHANGED <<args, hashOrder, agentsText, tree, documented, actual, deps,
                   report, jsonFile, summary, goVars, pkgVars>>

\* args.output.write_text(report, encoding="utf-8")
WriteOutput ==
    /\ pc = "reported"
    /\ args.output
    /\ outputFile' = <<report>>
    /\ pc' = "delivered"
    /\ UNCHANGED <<args, hashOrder, agentsText, tree, documented, actual, deps,
                   report, stdout, jsonFile, summary, goVars, pkgVars>>

WriteOutputFails ==
    /\ pc = "reported"
    /\ args.output
    /\ outputFile' \in FailedWrite(outputFile, report)
    /\ Abort
    /\ UNCHANGED <<args, hashOrder, agentsText, tree, documented, actual, deps,
                   report, stdout, jsonFile, summary, goVars, pkgVars>>

\* print(report)
PrintReport ==
    /\ pc = "reported"
    /\ ~args.output
    /\ stdout' = Append(stdout, report \o "\n")
    /\ pc' = "delivered"
    /\ UNCHANGED <<args, hashOrder, agentsText, tree, documented, actual, deps,
                   report, outputFile, jsonFile, summary, goVars, pkgVars>>

\* print raises (a closed pipe, a full disk), with part of the text out or none
PrintFails ==
    /\ pc = "reported"
    /\ ~args.output
    /\ stdout' \in {stdout, Append(stdout, SubSeq(report, 1, Len(report) \div 2))}
    /\ Abort
    /\ UNCHANGED <<args, hashOrder, agentsText, tree, documented, actual, deps,
                   report, outputFile, jsonFile, summary, goVars, pkgVars>>

\* Mutant of WriteJson: the summary is made and not written
WriteJsonSkipped ==
    /\ pc = "delivered"
    /\ args.json
    /\ summary' = generate_json_summary(documented, actual, deps, hashOrder)
    /\ pc' = "done"
    /\ UNCHANGED <<args, hashOrder, agentsText, tree, documented, actual, deps,
                   report, stdout, outputFile, jsonFile, goVars, pkgVars>>

\* if args.json: summary = generate_json_summary(...); args.json.write_text(...)
WriteJson ==
    /\ pc = "delivered"
    /\ args.json
    /\ summary' = generate_json_summary(documented, actual, deps, hashOrder)
    /\ jsonFile' = <<Dumps(summary')>>
    /\ pc' = "done"
    /\ UNCHANGED <<args, hashOrder, agentsText, tree, documented, actual, deps,
                   report, stdout, outputFile, goVars, pkgVars>>

WriteJsonFails ==
    /\ pc = "delivered"
    /\ args.json
    /\ summary' = generate_json_summary(documented, actual, deps, hashOrder)
    /\ jsonFile' \in FailedWrite(jsonFile, Dumps(summary'))
    /\ Abort
    /\ UNCHANGED <<args, hashOrder, agentsText, tree, documented, actual, deps,
                   report, stdout, outputFile, goVars, pkgVars>>

\* main returns without --json: exit status 0
Finish ==
    /\ pc = "delivered"
    /\ ~args.json
    /\ pc' = "done"
    /\ UNCHANGED <<mainVars, goVars, pkgVars>>

-----------------------------------------------------------------------------
(* The repositories the run is checked on                                  *)

\* Bounds of the model
MaxFiles == 2
MaxHashOrder == 1
MaxFrags == 3
MaxPaths == 3
MaxGoLines == 3
MaxEntries == 1

SeqsUpTo(S, n) == UNION {[1..k -> S] : k \in 0..n}

SubsetsUpTo(S, n) == {T \in SUBSET S : Cardinality(T) <= n}

FileEntry(rel, text) ==
    [path |-> REPO_ROOT \o "/" \o rel, kind |-> "file", text |-> text]

GoModText == "module m\n\nrequire (\n\ta v1\n)\nrequire b v2\n"

GoodPackageText == "{\"name\": \"gui\", \"dependencies\": {\"x\": \"1.0\"}}"

BadPackageText == "{\"dependencies\": "

FilePool ==
    { FileEntry("synnergy-network/core/a.go", ""),
      FileEntry("synnergy-network/core/.DS_Store", ""),
      FileEntry("synnergy-network/GUI/app.js", ""),
      FileEntry("synnergy-network/cmd/sub/main.go", ""),
      FileEntry("synnergy-network/cmd", ""),
      FileEntry("synnergy-network/docs/x.md", ""),
      FileEntry("go.mod", GoModText),
      FileEntry("synnergy-network/GUI/package.json", GoodPackageText),
      FileEntry("synnergy-network/GUI/package.json", BadPackageText) }

\* No two files at one path, and no file below a file
ConsistentFiles(F) ==
    \A e \in F : \A f \in F :
        e # f => e.path # f.path /\ ~StartsWith(f.path, e.path \o "/")

\* The directories above a path, below REPO_ROOT
DirsAbove(p) ==
    {[path |-> SubSeq(p, 1, k - 1), kind |-> "dir", text |-> ""] :
        k \in {i \in (Len(REPO_ROOT) + 2)..Len(p) : At(p, i) = "/"}}

TreeOf(F) == F \cup UNION {DirsAbove(e.path) : e \in F}

Trees == {TreeOf(F) : F \in {G \in SubsetsUpTo(FilePool, MaxFiles) : ConsistentFiles(G)}}

DocTexts ==
    { "",
      "See synnergy-network/core/a.go and synnergy-network/GUI\n",
      "- synnergy-network/docs/x.md\n- synnergy-network/cmd/sub/main.go\n- synnergy-network/GUI/app.js" }

Idle ==
    /\ goLines = <<>> /\ goIdx = 0 /\ in_require = FALSE /\ goDeps = <<>>
    /\ pkgText = "" /\ pkgData = <<>> /\ pkgDeps = <<>>

Unset ==
    /\ documented = {} /\ actual = {} /\ deps = <<>> /\ report = ""
    /\ stdout = <<>> /\ outputFile = <<>> /\ jsonFile = <<>> /\ summary = <<>>

Init ==
    /\ pc = "start"
    /\ args \in [output : BOOLEAN, json : BOOLEAN]
    /\ hashOrder \in 0..MaxHashOrder
    /\ agentsText \in {<<>>} \cup {<<t>> : t \in DocTexts}
    /\ tree \in Trees
    /\ Unset
    /\ Idle

Next ==
    \/ ParseDocumented
    \/ ListActual
    \/ CollectDependencies
    \/ ReadFails
    \/ GenerateReport
    \/ WriteOutput
    \/ WriteOutputFails
    \/ PrintReport
    \/ PrintFails
    \/ WriteJson
    \/ WriteJsonFails
    \/ Finish

Spec == Init /\ [][Next]_vars

-----------------------------------------------------------------------------
(* parse_documented_files on documentation texts                           *)

ScenarioText == "See synnergy-network/core/foo.go and synnergy-network/GUI"

Fragments ==
    {"synnergy-network/", "Synnergy-Network/", "core", "GUI", "cmd",
     "/", ".", " ", "\n", "a_1"}

\* The texts made of at most MaxFrags fragments
FragTexts == {Join("", f) : f \in SeqsUpTo(Fragments, MaxFrags)}

InitExtract ==
    /\ pc = "start"
    /\ args = [output |-> FALSE, json |-> FALSE]
    /\ hashOrder = 0
    /\ agentsText \in {<<t>> : t \in FragTexts \cup {ScenarioText}}
    /\ tree = {}
    /\ Unset
    /\ Idle

SpecExtract == InitExtract /\ [][ParseDocumented]_vars

-----------------------------------------------------------------------------
(* generate_report and generate_json_summary on sets of paths              *)

PathPool ==
    {"synnergy-network/core/a.go", "synnergy-network/GUI/app.js",
     "synnergy-network/docs/x.md", "lib/cmd", "README"}

DepsPool ==
    { <<>>,
      << <<"go.mod", <<"a v1", "b \"c\" \\ v2">> >>,
         <<"web/package.json", <<>> >> >> }

\* summary = generate_json_summary(documented, actual, deps)
AuditSummary ==
    /\ pc = "audit"
    /\ summary' = generate_json_summary(documented, actual, deps, hashOrder)
    /\ pc' = "summarised"
    /\ UNCHANGED <<args, hashOrder, agentsText, tree, documented, actual, deps,
                   report, stdout, outputFile, jsonFile, goVars, pkgVars>>

\* write_text(json.dumps(summary, indent=2))
AuditDump ==
    /\ pc = "summarised"
    /\ jsonFile' = <<Dumps(summary)>>
    /\ pc' = "dumped"
    /\ UNCHANGED <<args, hashOrder, agentsText, tree, documented, actual, deps,
                   report, stdout, outputFile, summary, goVars, pkgVars>>

\* report = generate_report(documented, actual, deps), which may raise
AuditReport ==
    /\ pc = "dumped"
    /\ IF ReportRaises(documented, actual)
       THEN /\ pc' = "raised"
            /\ UNCHANGED report
       ELSE /\ report' = generate_report(documented, actual, deps, hashOrder)
            /\ pc' = "rendered"
    /\ UNCHANGED <<args, hashOrder, agentsText, tree, documented, actual, deps,
                   stdout, outputFile, jsonFile, summary, goVars, pkgVars>>

InitAudit ==
    /\ pc = "audit"
    /\ args = [output |-> FALSE, json |-> FALSE]
    /\ hashOrder \in 0..MaxHashOrder
    /\ agentsText = <<>>
    /\ tree = {}
    /\ documented \in SubsetsUpTo(PathPool, MaxPaths)
    /\ actual \in SubsetsUpTo(PathPool, MaxPaths)
    /\ deps \in DepsPool
    /\ report = "" /\ stdout = <<>> /\ outputFile = <<>> /\ jsonFile = <<>>
    /\ summary = <<>>
    /\ Idle

NextAudit == AuditSummary \/ AuditDump \/ AuditReport

SpecAudit == InitAudit /\ [][NextAudit]_vars

-----------------------------------------------------------------------------
(* parse_go_mod, one line of the file at a step                            *)

GoLinePool ==
    {"require (", ")", "", "\ta v1", "require b v2", "require c (",
     "module m", "  )  ", "require (x y"}

\* One pass of the for loop over the lines
GoModLine ==
    /\ pc = "go_scan"
    /\ goIdx < Len(goLines)
    /\ LET st == GoModStep([in_require |-> in_require, deps |-> goDeps,
                            raised |-> FALSE],
                           goLines[goIdx + 1])
       IN  /\ in_require' = st.in_require
           /\ goDeps' = st.deps
           /\ pc' = IF st.raised THEN "go_raised" ELSE pc
    /\ goIdx' = goIdx + 1
    /\ UNCHANGED <<mainVars, goLines, pkgVars>>

\* return deps
GoModReturn ==
    /\ pc = "go_scan"
    /\ goIdx = Len(goLines)
    /\ pc' = "go_done"
    /\ UNCHANGED <<mainVars, goVars, pkgVars>>

InitGoMod ==
    /\ pc = "go_scan"
    /\ args = [output |-> FALSE, json |-> FALSE]
    /\ hashOrder = 0
    /\ agentsText = <<>>
    /\ tree = {}
    /\ Unset
    /\ goLines \in SeqsUpTo(GoLinePool, MaxGoLines)
    /\ goIdx = 0 /\ in_require = FALSE /\ goDeps = <<>>
    /\ pkgText = "" /\ pkgData = <<>> /\ pkgDeps = <<>>

NextGoMod == GoModLine \/ GoModReturn

SpecGoMod == InitGoMod /\ [][NextGoMod]_vars

-----------------------------------------------------------------------------
(* parse_package_json on manifests                                         *)

PkgNames == {"x", "y"}

PkgVersions == {"1.0", "2.0"}

\* The objects of at most n entries, no name twice
PkgObjects(n) ==
    {o \in SeqsUpTo(PkgNames \X PkgVersions, n) :
        \A i \in DOMAIN o : \A j \in DOMAIN o : i # j => o[i][1] # o[j][1]}

PkgSections == {"dependencies", "devDependencies", "scripts"}

\* The manifests: sections in any order, no section twice
PkgManifests ==
    {m \in SeqsUpTo(PkgSections \X PkgObjects(MaxEntries), Cardinality(PkgSections)) :
        \A i \in DOMAIN m : \A j \in DOMAIN m : i # j => m[i][1] # m[j][1]}

DumpStrDict(d, level) ==
    DumpItems("{",
              [i \in 1..Len(d) |->
                  DumpMember(d[i][1], DumpStr(d[i][2], level + 1), level + 1)],
              "}", level)

\* The text of a manifest: a dict of sections
DumpManifest(m) ==
    DumpItems("{", [i \in 1..Len(m) |-> DumpMember(m[i][1], DumpStrDict(m[i][2], 1), 1)],
              "}", 0)

ScenarioPackageText ==
    "{\"dependencies\": {\"x\": \"1.0\"}, \"devDependencies\": {\"y\": \"2.0\"}}"

\* The text of a manifest, and texts json.loads rejects or reads a key twice in
PkgTexts ==
    {DumpManifest(m) : m \in PkgManifests}
    \cup {ScenarioPackageText, BadPackageText,
          "{\"dependencies\": {\"x\": \"1.0\", \"y\": \"1.0\", \"x\": \"2.0\"}}"}

\* data = json.loads(path.read_text(encoding="utf-8"))
PkgLoad ==
    /\ pc = "pkg_start"
    /\ LET r == Loads(pkgText)
       IN  IF r.ok
           THEN /\ pkgData' = r.v
                /\ pc' = "pkg_loaded"
           ELSE /\ pc' = "pkg_raised"
                /\ UNCHANGED pkgData
    /\ UNCHANGED <<mainVars, goVars, pkgText, pkgDeps>>

\* The loop over the two sections, and return deps
PkgSectionsLoop ==
    /\ pc = "pkg_loaded"
    /\ pkgDeps' = PackageDeps(pkgData)
    /\ pc' = "pkg_done"
    /\ UNCHANGED <<mainVars, goVars, pkgText, pkgData>>

InitPkg ==
    /\ pc = "pkg_start"
    /\ args = [output |-> FALSE, json |-> FALSE]
    /\ hashOrder = 0
    /\ agentsText = <<>>
    /\ tree = {}
    /\ Unset
    /\ goLines = <<>> /\ goIdx = 0 /\ in_require = FALSE /\ goDeps = <<>>
    /\ pkgText \in PkgTexts
    /\ pkgData = <<>> /\ pkgDeps = <<>>

NextPkg == PkgLoad \/ PkgSectionsLoop

SpecPkg == InitPkg /\ [][NextPkg]_vars

-----------------------------------------------------------------------------
(* Reading a report back: what the claims about the report are stated on   *)

ReportTextLines == Split(report, "\n")

\* The first line that starts with p
FirstLine(lines, p) ==
    CHOOSE i \in DOMAIN lines :
        /\ StartsWith(lines[i], p)
        /\ \A j \in 1..(i - 1) : ~StartsWith(lines[j], p)

\* The lines between the heading of a section and the heading that follows it
SectionBody(lines, heading, following) ==
    SubSeq(lines, FirstLine(lines, heading) + 1, FirstLine(lines, following) - 1)

MissingOfLines(lines) ==
    SectionBody(lines, "## Missing Files (", "## Undocumented Files (")

UndocumentedOfLines(lines) ==
    SectionBody(lines, "## Undocumented Files (", "## Dependencies")

MissingBody == MissingOfLines(ReportTextLines)

UndocumentedBody == UndocumentedOfLines(ReportTextLines)

IsTableHead(line) == line \in {"| File | Owner | Priority |", "| --- | --- | --- |"}

\* The table rows of a section: the cells of each, <<file, owner, priority>>
RowCells(line) == Split(SubSeq(line, 3, Len(line) - 2), " | ")

TableRows(body) ==
    LET rows == SelectSeq(body, LAMBDA l : StartsWith(l, "| ") /\ ~IsTableHead(l))
    IN  [i \in 1..Len(rows) |-> RowCells(rows[i])]

\* A strictly ascending list of str: sorted, and no element twice
Ascending(l) == \A i \in DOMAIN l : \A j \in DOMAIN l : i < j => StrLess(l[i], l[j])

Summarised == pc \in {"summarised", "dumped", "raised", "rendered"}

-----------------------------------------------------------------------------
(* C1                                                                      *)

\* C1: for every documented set D and actual set A, the missing list holds
\* exactly D \ A and the undocumented list exactly A \ D; the two are disjoint;
\* missing, undocumented and D \cap A are pairwise disjoint and their union is
\* D \cup A; both lists are strictly ascending (sorted, no duplicates), in the
\* JSON summary and in the rows of the report.
InvC1_Diff ==
    /\ Summarised =>
          LET m == Range(DictAt(summary, "missing"))
              u == Range(DictAt(summary, "undocumented"))
              both == documented \cap actual
          IN  /\ m = documented \ actual
              /\ u = actual \ documented
              /\ m \cap u = {}
              /\ m \cap both = {}
              /\ u \cap both = {}
              /\ m \cup u \cup both = documented \cup actual
              /\ Ascending(DictAt(summary, "missing"))
              /\ Ascending(DictAt(summary, "undocumented"))
              /\ Len(DictAt(summary, "missing")) = Cardinality(documented \ actual)
              /\ Len(DictAt(summary, "undocumented")) = Cardinality(actual \ documented)
    /\ pc = "rendered" =>
          LET lines == ReportTextLines
              mr == TableRows(MissingOfLines(lines))
              ur == TableRows(UndocumentedOfLines(lines))
          IN  /\ [i \in 1..Len(mr) |-> mr[i][1]] = DictAt(summary, "missing")
              /\ [i \in 1..Len(ur) |-> ur[i][1]] = DictAt(summary, "undocumented")

WitC1_Diff ==
    /\ pc = "rendered"
    /\ Len(DictAt(summary, "missing")) >= 2
    /\ Len(DictAt(summary, "undocumented")) >= 1
    /\ documented \cap actual # {}

-----------------------------------------------------------------------------
(* C4                                                                      *)

\* The second "/"-separated segment of p is k
SecondSegmentIs(p, k) ==
    \E i \in 1..Len(p) :
        /\ At(p, i) = "/"
        /\ \A j \in 1..(i - 1) : At(p, j) # "/"
        /\ OccursAt(p, k, i + 1)
        /\ (i + Len(k) = Len(p) \/ At(p, i + Len(k) + 1) = "/")

Owned(p) == \E k \in OwnerKeys : SecondSegmentIs(p, k)

CountsAgree(counts, paths) ==
    /\ DictKeys(counts) \subseteq OwnerKeys
    /\ \A k \in OwnerKeys :
          DictGet(counts, k, 0) = Cardinality({p \in paths : SecondSegmentIs(p, k)})

CountsTotal(counts) ==
    DictGet(counts, "core", 0) + DictGet(counts, "GUI", 0) + DictGet(counts, "cmd", 0)

\* C4: compute_counts gives, for each key k of the owner map, the number of
\* paths whose second segment is k; a path whose second segment is no key (or
\* that has none) adds to no count, yet is in the totals and in the missing and
\* undocumented lists; so the counts sum to at most the total, and to less when
\* there is such a path.
InvC4_Counts ==
    Summarised =>
        LET dc == DictAt(summary, "documented_counts")
            ac == DictAt(summary, "actual_counts")
        IN  /\ CountsAgree(dc, documented)
            /\ CountsAgree(ac, actual)
            /\ DictAt(summary, "documented_total") = Cardinality(documented)
            /\ DictAt(summary, "actual_total") = Cardinality(actual)
            /\ CountsTotal(dc) <= DictAt(summary, "documented_total")
            /\ CountsTotal(ac) <= DictAt(summary, "actual_total")
            /\ (\E p \in documented : ~Owned(p))
                  => CountsTotal(dc) < DictAt(summary, "documented_total")
            /\ (\E p \in actual : ~Owned(p))
                  => CountsTotal(ac) < DictAt(summary, "actual_total")
            /\ \A p \in documented \ actual :
                  ~Owned(p) => p \in Range(DictAt(summary, "missing"))
            /\ \A p \in actual \ documented :
                  ~Owned(p) => p \in Range(DictAt(summary, "undocumented"))

WitC4_Counts ==
    /\ Summarised
    /\ "README" \in documented \ actual
    /\ "synnergy-network/docs/x.md" \in actual \ documented
    /\ "lib/cmd" \in documented
    /\ DictGet(DictAt(summary, "documented_counts"), "cmd", 0) = 1

-----------------------------------------------------------------------------
(* C7                                                                      *)

\* A section of the report renders the set S: "(none)" and no table exactly
\* when S is empty, else the table heading and one row per path of S, each with
\* the priority of the section, and no "(none)" line
SectionRenders(body, S, priority) ==
    LET rows == TableRows(body)
    IN  /\ ("(none)" \in Range(body)) <=> (S = {})
        /\ (\E l \in Range(body) : IsTableHead(l)) <=> (S # {})
        /\ S # {} => /\ body[1] = "| File | Owner | Priority |"
                     /\ body[2] = "| --- | --- | --- |"
        /\ Len(rows) = Cardinality(S)
        /\ {rows[i][1] : i \in DOMAIN rows} = S
        /\ \A i \in DOMAIN rows : Len(rows[i]) = 3 /\ rows[i][3] = priority
        /\ Len(body) = (IF S = {} THEN 2 ELSE Cardinality(S) + 3)
        /\ body[Len(body)] = ""

\* C7: in the markdown report the "Missing Files" section renders "(none)" and
\* no table exactly when documented \ actual is empty, and otherwise a table
\* with one row per missing path, priority High, and no "(none)"; the same for
\* "Undocumented Files" with actual \ documented and priority Review. When the
\* two sets are identical both sections render "(none)".
InvC7_NoneMarker ==
    pc = "rendered" =>
        LET lines == ReportTextLines
            mb == MissingOfLines(lines)
            ub == UndocumentedOfLines(lines)
        IN  /\ SectionRenders(mb, documented \ actual, "High")
            /\ SectionRenders(ub, actual \ documented, "Review")
            /\ documented = actual =>
                  /\ mb = <<"(none)", "">>
                  /\ ub = <<"(none)", "">>

WitC7_NoneMarker ==
    /\ pc = "rendered"
    /\ documented \ actual = {}
    /\ Cardinality(actual \ documented) = 2
    /\ "(none)" \in Range(MissingBody)
    /\ Len(TableRows(UndocumentedBody)) = 2

-----------------------------------------------------------------------------
(* C8                                                                      *)

\* The dict json.loads makes of the text of the --json file
ParsedBack == Loads(jsonFile[1])

\* C8: the JSON text of the summary parses back to the values computed
\* directly: documented_total = |documented|, actual_total = |actual|, the same
\* per-directory counts, a missing array whose elements are documented \ actual,
\* an undocumented array whose elements are actual \ documented, and the same
\* dependency map.
InvC8_RoundTrip ==
    pc \in {"dumped", "raised", "rendered"} =>
        LET back == ParsedBack
        IN  /\ back.ok
            /\ DictAt(back.v, "documented_total") = Cardinality(documented)
            /\ DictAt(back.v, "actual_total") = Cardinality(actual)
            /\ CountsAgree(DictAt(back.v, "documented_counts"), documented)
            /\ CountsAgree(DictAt(back.v, "actual_counts"), actual)
            /\ Range(DictAt(back.v, "missing")) = documented \ actual
            /\ Range(DictAt(back.v, "undocumented")) = actual \ documented
            /\ DictAt(back.v, "dependencies") = deps
            /\ back.v = summary

WitC8_RoundTrip ==
    /\ pc = "dumped"
    /\ deps # <<>>
    /\ Cardinality(documented \ actual) >= 2
    /\ Cardinality(DictKeys(DictAt(summary, "actual_counts"))) >= 2
    /\ ParsedBack.ok

-----------------------------------------------------------------------------
(* C3                                                                      *)

AllPathChars(s, a, b) == \A k \in a..b : At(s, k) \in PathChars

\* The places of s where a reference starts: the prefix is there, a path
\* character follows it, and no reference that started earlier runs over it
ReferenceStarts(s) ==
    {i \in 1..Len(s) :
        /\ OccursAt(s, PatternPrefix, i)
        /\ At(s, i + Len(PatternPrefix)) \in PathChars
        /\ ~\E k \in 1..(i - 1) :
              OccursAt(s, PatternPrefix, k) /\ AllPathChars(s, k, i - 1)}

\* The place where the reference that starts at i ends: its path characters run
\* up to there and no further
ReferenceEnd(s, i) ==
    CHOOSE j \in (i + Len(PatternPrefix))..Len(s) :
        /\ AllPathChars(s, i + Len(PatternPrefix), j)
        /\ At(s, j + 1) \notin PathChars

References(s) == {SubSeq(s, i, ReferenceEnd(s, i)) : i \in ReferenceStarts(s)}

-----------------------------------------------------------------------------
(* C5                                                                      *)

\* What one pass of the loop of parse_go_mod does with a line, by the kind of
\* the stripped line and whether a require block is open
GoModLineRule ==
    LET line == Strip(goLines[goIdx + 1])
        opens == StartsWith(line, "require (")
        closes == in_require /\ line = ")"
        single == StartsWith(line, "require ") /\ ~EndsWith(line, "(")
    IN  /\ pc' = "go_scan"
        /\ opens => in_require' /\ goDeps' = goDeps
        /\ closes => ~in_require' /\ goDeps' = goDeps
        /\ (in_require /\ ~opens /\ ~closes /\ line # "")
              => in_require' /\ goDeps' = Append(goDeps, line)
        /\ (in_require /\ line = "") => in_require' /\ goDeps' = goDeps
        /\ (~in_require /\ ~opens /\ single)
              => ~in_require' /\ goDeps' = Append(goDeps, From(line, Len("require ") + 1))
        /\ (~in_require /\ ~opens /\ ~single)
              => ~in_require' /\ goDeps' = goDeps

\* C5: parse_go_mod scans the stripped lines in two states, outside and inside
\* a require block. A line starting with "require (" opens a block and is not
\* emitted; a line equal to ")" inside closes it and is not emitted; any other
\* non-blank line inside is emitted; outside, a line starting with "require "
\* and not ending with "(" emits the text after "require ", and no other line
\* is emitted. Entries are appended in file order, and no line makes the parser
\* raise: it consumes every line and returns.
PropC5_GoModScanner ==
    [][/\ (pc = "go_scan" /\ goIdx' = goIdx + 1) => GoModLineRule
       /\ pc' # "go_raised"
       /\ pc' = "go_done" => goIdx = Len(goLines) /\ goDeps' = goDeps]_vars

WitC5_GoModScanner ==
    /\ pc = "go_done"
    /\ in_require
    /\ goLines = <<"require b v2", "require (", "\ta v1">>
    /\ goDeps = <<"b v2", "a v1">>

-----------------------------------------------------------------------------
(* C6                                                                      *)

\* C6: parse_package_json returns one "name version" string per entry of the
\* dependencies section followed by one per entry of the devDependencies
\* section, in the order of the entries in each; a missing section adds
\* nothing and no other section adds entries. The manifest
\* {"dependencies": {"x": "1.0"}, "devDependencies": {"y": "2.0"}} yields
\* ["x 1.0", "y 2.0"].
InvC6_PackageDeps ==
    pc = "pkg_done" =>
        LET d == DictGet(pkgData, "dependencies", <<>>)
            v == DictGet(pkgData, "devDependencies", <<>>)
        IN  /\ Len(pkgDeps) = Len(d) + Len(v)
            /\ \A i \in 1..Len(d) : pkgDeps[i] = d[i][1] \o " " \o d[i][2]
            /\ \A i \in 1..Len(v) : pkgDeps[Len(d) + i] = v[i][1] \o " " \o v[i][2]
            /\ pkgText = ScenarioPackageText => pkgDeps = <<"x 1.0", "y 2.0">>

WitC6_PackageDeps ==
    /\ pc = "pkg_done"
    /\ pkgText = ScenarioPackageText
    /\ pkgDeps = <<"x 1.0", "y 2.0">>

-----------------------------------------------------------------------------
(* C2                                                                      *)

NoOutput == stdout = <<>> /\ outputFile = <<>> /\ jsonFile = <<>>

\* The markdown report is whole at the destination the flags name
MarkdownWritten == IF args.output THEN outputFile = <<report>> ELSE stdout = <<report \o "\n">>

EveryOutputWritten == MarkdownWritten /\ (args.json => jsonFile = <<Dumps(summary)>>)

\* C2 as stated: a run either completes with every requested output written or
\* aborts with nothing printed, no markdown file and no JSON file.
InvC2_AllOrNothing ==
    /\ pc = "done" => EveryOutputWritten
    /\ pc = "aborted" => NoOutput

\* C2, amended: a run that completes has every requested output written; a run
\* that aborts before the report is rendered (reading the documentation file,
\* listing directories, parsing manifests) has written no output at all; a run
\* that aborts later has written no JSON file unless the markdown report was
\* delivered whole before it, the JSON flag was given and the write of the
\* JSON file is what failed.
InvC2_OutputStages ==
    /\ pc = "done" => EveryOutputWritten
    /\ (pc = "aborted" /\ report = "") => NoOutput
    /\ (pc = "aborted" /\ report # "" /\ jsonFile # <<>>) => args.json /\ MarkdownWritten
    /\ (pc = "aborted" /\ report # "" /\ ~MarkdownWritten) => jsonFile = <<>> /\ summary = <<>>

WitC2_OutputStages ==
    /\ pc = "aborted"
    /\ args.output /\ args.json
    /\ outputFile = <<report>>
    /\ report # ""
    /\ jsonFile = <<"">>

-----------------------------------------------------------------------------
(* C9                                                                      *)

\* How far main has come
Stage(p) ==
    CASE p = "start" -> 0 [] p = "parsed" -> 1 [] p = "listed" -> 2
      [] p = "collected" -> 3 [] p = "reported" -> 4 [] p = "delivered" -> 5
      [] p = "done" -> 6 [] p = "aborted" -> 6

RoutingC9 ==
    /\ pc \in {"delivered", "done"} =>
          IF args.output
          THEN outputFile = <<report>> /\ stdout = <<>>
          ELSE stdout = <<report \o "\n">> /\ outputFile = <<>>
    /\ pc = "done" =>
          /\ args.json <=> jsonFile # <<>>
          /\ args.json => jsonFile = <<Dumps(summary)>>
    /\ Stage(pc) < 6 => jsonFile = <<>>
    /\ pc = "collected" => ~ReportRaises(documented, actual)

\* C9: the markdown report goes to exactly one destination, the -o file when
\* the flag is given (and then nothing is printed) and standard output
\* otherwise; the JSON summary is written if and only if --json is given, and
\* only once the markdown report is delivered; every step takes main further,
\* the markdown report is delivered in one step and never touched again, and
\* rendering the report raises on no sets the run gives it, so that a run that
\* meets no I/O or parse error completes.
PropC9_Routing ==
    /\ []RoutingC9
    /\ [][/\ Stage(pc') > Stage(pc)
          /\ jsonFile' # jsonFile => pc = "delivered" /\ args.json
          /\ (stdout' # stdout \/ outputFile' # outputFile) => pc = "reported"]_vars

WitC9_Routing ==
    /\ pc = "done"
    /\ args.output /\ args.json
    /\ actual # {}
    /\ outputFile = <<report>>
    /\ stdout = <<>>
    /\ jsonFile = <<Dumps(summary)>>

-----------------------------------------------------------------------------
(* C10                                                                     *)

UndocumentedRows == TableRows(UndocumentedOfLines(Split(report, "\n")))

MissingRows == TableRows(MissingOfLines(Split(report, "\n")))

\* C10: every path list_actual_files returns has "synnergy-network" as its
\* first segment and core, GUI or cmd as its second; so the three actual
\* counts sum to the actual total, the owner lookup fails on no undocumented
\* path, and no row of the Undocumented Files table has owner "Unassigned".
InvC10_ActualPaths ==
    /\ \A p \in actual : StartsWith(p, "synnergy-network/") /\ Owned(p)
    /\ CountsTotal(compute_counts(actual, hashOrder)) = Cardinality(actual)
    /\ \A p \in actual \ documented : ~OwnerRaises(p) /\ OwnerOf(p) # "Unassigned"
    /\ report # "" =>
          LET rows == UndocumentedRows
          IN  /\ Len(rows) = Cardinality(actual \ documented)
              /\ \A i \in DOMAIN rows : rows[i][2] # "Unassigned"

WitC10_ActualPaths ==
    /\ report # ""
    /\ "synnergy-network/core/a.go" \in actual \ documented
    /\ "synnergy-network/docs/x.md" \in documented
    /\ \E i \in DOMAIN UndocumentedRows :
          UndocumentedRows[i] = <<"synnergy-network/core/a.go", "Core Team", "Review">>
    /\ \E i \in DOMAIN MissingRows : MissingRows[i][2] = "Unassigned"

====
